---- MODULE Spec2Model ----
(***************************************************************************)
(* Model of the section planner of src/app.py: create_sections_with_llm    *)
(* (target count, boundary-phrase matching, sanitation, content            *)
(* extraction, quality gate) and create_logical_sections_fallback (even    *)
(* split).                                                                 *)
(*                                                                         *)
(* Representation.                                                         *)
(*  - A Python str is a sequence of one-character strings.                 *)
(*  - A float number of seconds is an integer number of ticks, with        *)
(*    TicksPerSec ticks to the second; int(x) is x \div TicksPerSec.       *)
(*    Quotients of floats are compared by cross-multiplication, i.e. as    *)
(*    exact rationals.                                                     *)
(*  - A match score (a float in [0, 1]) is a fraction [num, den].          *)
(***************************************************************************)
EXTENDS Integers, Sequences, FiniteSets, TLC

\* ------------------------------------------------------------- bounds
TicksPerSec == 2
MaxSegs == 5
MaxProps == 2
MaxCands == 4
MaxEvenSegs == 4
MaxTarget == 4
MaxMinutes == 70

\* ------------------------------------------------------------- Python str
Abs(x) == IF x < 0 THEN -x ELSE x

IsSpace(c) == c = " "

\* str.lower(), one character
LowerChar(c) ==
  CASE c = "A" -> "a"
    [] c = "G" -> "g"
    [] OTHER -> c

\* str.lower()
Lower(s) == [i \in 1..Len(s) |-> LowerChar(s[i])]

RECURSIVE LStrip(_)
LStrip(s) ==
  IF s # <<>> /\ IsSpace(Head(s)) THEN LStrip(Tail(s)) ELSE s

RECURSIVE RStrip(_)
RStrip(s) ==
  IF s # <<>> /\ IsSpace(s[Len(s)]) THEN RStrip(SubSeq(s, 1, Len(s) - 1)) ELSE s

\* str.strip()
Strip(s) == LStrip(RStrip(s))

\* the first whitespace-free run of s (s starts with a non-space)
RECURSIVE FirstWord(_)
FirstWord(s) ==
  IF s = <<>> \/ IsSpace(Head(s)) THEN <<>>
  ELSE <<Head(s)>> \o FirstWord(Tail(s))

\* str.split(): the whitespace-separated words, none of them empty
RECURSIVE Split(_)
Split(s) ==
  LET t == LStrip(s)
  IN IF t = <<>> THEN <<>>
     ELSE LET w == FirstWord(t)
          IN <<w>> \o Split(SubSeq(t, Len(w) + 1, Len(t)))

\* needle in hay (substring test; the empty string is in every string)
Contains(hay, needle) ==
  \E i \in 0..(Len(hay) - Len(needle)) :
    SubSeq(hay, i + 1, i + Len(needle)) = needle

\* " ".join(parts)
RECURSIVE Join(_)
Join(parts) ==
  IF parts = <<>> THEN <<>>
  ELSE IF Len(parts) = 1 THEN parts[1]
  ELSE parts[1] \o <<" ">> \o Join(Tail(parts))

\* ------------------------------------------------------------- program constants
WindowSize == 4
MinWordLen == 2
ThresholdNum == 1
ThresholdDen == 2
FirstTolerance == 5
SecPerMin == 60
MaxTargetSections == 20

\* ------------------------------------------------------------- state
VARIABLES
  transcript_data,   \* the segments: <<[text, start, duration], ...>>, times in ticks
  video_duration,    \* last start + last duration, in ticks
  target_sections,   \* STEP 1's section count (0 before STEP 1)
  target_count,      \* the argument of a direct even-split call
  llm_sections,      \* the parsed JSON array: <<[is_object, has_title, title, first_sentence], ...>>
  llm_outcome,       \* how the boundary call ended: none, raise, nojson, badjson, array
  idx,               \* STEP 3's loop index (0-based, as enumerate gives it)
  resolved,          \* per proposal, which branch of lines 290-296 was taken
  sections,          \* the list being built: <<[timestamp, title, content], ...>>
  result,            \* the returned list
  via,               \* none, llm (line 340), fallback (lines 243, 250, 337, 346), error
  pc,                \* position in the function
  questions_text,    \* generate_section_questions: the collaborator's answer
  questions,         \* generate_section_questions: the returned list
  quiz_text,         \* generate_quiz_questions: the collaborator's answer
  quiz_questions,    \* generate_quiz_questions: the returned list
  transcript_cache,  \* the process-wide cache: video id -> entry
  req                \* the requests being served: request id -> its local state

plannerVars == <<transcript_data, video_duration, target_sections, target_count,
                 llm_sections, llm_outcome, idx, resolved, sections, result, via, pc>>
enrichVars == <<questions_text, questions, quiz_text, quiz_questions>>
pipeVars == <<transcript_cache, req>>

vars == <<plannerVars, enrichVars, pipeVars>>

None == <<"None">>

\* ------------------------------------------------------------- STEP 1
\* TargetForMinutes with one section per 4 minutes past the table
TargetForMinutes_PerFour(video_minutes) ==
  IF video_minutes <= 3 THEN 3
  ELSE IF video_minutes <= 5 THEN 4
  ELSE IF video_minutes <= 10 THEN 5
  ELSE IF video_minutes <= 20 THEN 8
  ELSE IF video_minutes <= 40 THEN 12
  ELSE IF video_minutes \div 4 < MaxTargetSections THEN video_minutes \div 4
  ELSE MaxTargetSections

\* lines 178-189, on video_minutes
TargetForMinutes(video_minutes) ==
  IF video_minutes <= 3 THEN 3
  ELSE IF video_minutes <= 5 THEN 4
  ELSE IF video_minutes <= 10 THEN 5
  ELSE IF video_minutes <= 20 THEN 8
  ELSE IF video_minutes <= 40 THEN 12
  ELSE IF video_minutes \div 3 < MaxTargetSections THEN video_minutes \div 3
  ELSE MaxTargetSections

\* line 177: int(video_duration / 60), video_duration in ticks
VideoMinutes(duration) == duration \div (SecPerMin * TicksPerSec)

TargetSections(duration) == TargetForMinutes(VideoMinutes(duration))

\* ------------------------------------------------------------- STEP 3
\* fractions: a score is [num, den] with den > 0
Frac(n, d) == [num |-> n, den |-> d]
\* an equal score counts as a better one
FracLess_OrEqual(a, b) == a.num * b.den <= b.num * a.den

\* line 285: score > best_score
FracLess(a, b) == a.num * b.den < b.num * a.den
FracGeq(a, b) == a.num * b.den >= b.num * a.den

\* FirstSentence without .lower()
FirstSentence_NoLower(llm_section) == Strip(llm_section.first_sentence)

\* line 260: llm_section.get('first_sentence', '').lower().strip()
FirstSentence(llm_section) == Strip(Lower(llm_section.first_sentence))

\* line 259: llm_section.get('title', f'Section {idx+1}'), i the 0-based index
TitleOf(llm_section, i) ==
  IF llm_section.has_title THEN llm_section.title ELSE <<"Section", i + 1>>

\* line 267: [w for w in first_sentence.split() if len(w) > 2]
RECURSIVE LongWords(_)
LongWords(words) ==
  IF words = <<>> THEN <<>>
  ELSE IF Len(Head(words)) > MinWordLen THEN <<Head(words)>> \o LongWords(Tail(words))
  ELSE LongWords(Tail(words))

SearchWords(first_sentence) == LongWords(Split(first_sentence))

\* lines 272-275: the lower-cased texts of segment i (1-based) and up to 3 more
CombinedText(data, i) ==
  LET n == IF WindowSize < Len(data) - i + 1 THEN WindowSize ELSE Len(data) - i + 1
  IN Join([j \in 1..n |-> Lower(data[i + j - 1].text)])

\* line 278: sum(1 for word in search_words if word in combined_text)
RECURSIVE CountMatches(_, _)
CountMatches(words, text) ==
  IF words = <<>> THEN 0
  ELSE (IF Contains(text, Head(words)) THEN 1 ELSE 0) + CountMatches(Tail(words), text)

\* lines 278-283: the score of the window starting at segment i
WindowScore(first_sentence, search_words, data, i) ==
  LET combined_text == CombinedText(data, i)
  IN IF Contains(combined_text, first_sentence) THEN Frac(1, 1)
     ELSE Frac(CountMatches(search_words, combined_text), Len(search_words))

\* lines 270-287: the loop over segments i..len, carrying best_score, best_match_idx
\* (best_match_idx 0-based, as in the source)
RECURSIVE ScanFrom(_, _, _, _, _)
ScanFrom(first_sentence, search_words, data, i, best) ==
  IF i > Len(data) THEN best
  ELSE LET score == WindowScore(first_sentence, search_words, data, i)
       IN ScanFrom(first_sentence, search_words, data, i + 1,
                   IF FracLess(best.best_score, score)
                   THEN [best_score |-> score, best_match_idx |-> i - 1]
                   ELSE best)

\* lines 263-287
BestMatch(first_sentence, data) ==
  LET search_words == SearchWords(first_sentence)
      start == [best_score |-> Frac(0, 1), best_match_idx |-> 0]
  IN IF search_words # <<>>
     THEN ScanFrom(first_sentence, search_words, data, 1, start)
     ELSE start

\* the threshold itself is not accepted
Accepted_Above(best_score) == FracLess(Frac(ThresholdNum, ThresholdDen), best_score)

\* line 290: best_score >= 0.5
Accepted(best_score) == FracGeq(best_score, Frac(ThresholdNum, ThresholdDen))

\* a proposal that was not matched is placed at 0
ResolveTimestamp_ZeroFallback(best, data, duration, i, n) ==
  IF Accepted(best.best_score)
  THEN data[best.best_match_idx + 1].start \div TicksPerSec
  ELSE 0

\* lines 289-296: the timestamp of proposal i (0-based) among n proposals
ResolveTimestamp(best, data, duration, i, n) ==
  IF Accepted(best.best_score)
  THEN data[best.best_match_idx + 1].start \div TicksPerSec
  ELSE (i * duration) \div (n * TicksPerSec)

\* ------------------------------------------------------------- lines 304-318
\* lines 305-306
ForceFirst(secs) ==
  IF secs # <<>> /\ secs[1].timestamp > FirstTolerance
  THEN [secs EXCEPT ![1].timestamp = 0]
  ELSE secs

\* insertion of s after the last element with a timestamp <= its own
RECURSIVE InsertSorted(_, _)
InsertSorted(sorted, s) ==
  IF sorted = <<>> THEN <<s>>
  ELSE IF sorted[Len(sorted)].timestamp <= s.timestamp THEN Append(sorted, s)
  ELSE Append(InsertSorted(SubSeq(sorted, 1, Len(sorted) - 1), s), sorted[Len(sorted)])

\* line 309: sorted(sections, key=timestamp), a stable sort
RECURSIVE SortByTimestamp(_)
SortByTimestamp(secs) ==
  IF secs = <<>> THEN <<>>
  ELSE InsertSorted(SortByTimestamp(SubSeq(secs, 1, Len(secs) - 1)), secs[Len(secs)])

\* lines 312-318: keep the first section of each timestamp
RECURSIVE Unique(_, _)
Unique(secs, seen) ==
  IF secs = <<>> THEN <<>>
  ELSE IF Head(secs).timestamp \in seen THEN Unique(Tail(secs), seen)
  ELSE <<Head(secs)>> \o Unique(Tail(secs), seen \cup {Head(secs).timestamp})

Sanitize(secs) == Unique(SortByTimestamp(ForceFirst(secs)), {})

\* ------------------------------------------------------------- STEP 4
\* TextsIn with the window closed at its end: start <= section_end
RECURSIVE TextsIn_ClosedEnd(_, _, _)
TextsIn_ClosedEnd(data, section_start, section_end) ==
  IF data = <<>> THEN <<>>
  ELSE IF section_start * TicksPerSec <= Head(data).start /\ Head(data).start <= section_end
  THEN <<Head(data).text>> \o TextsIn_ClosedEnd(Tail(data), section_start, section_end)
  ELSE TextsIn_ClosedEnd(Tail(data), section_start, section_end)

\* lines 327-330: the texts of the segments with section_start <= start < section_end,
\* section_start in seconds, section_end in ticks
RECURSIVE TextsIn(_, _, _)
TextsIn(data, section_start, section_end) ==
  IF data = <<>> THEN <<>>
  ELSE IF section_start * TicksPerSec <= Head(data).start /\ Head(data).start < section_end
  THEN <<Head(data).text>> \o TextsIn(Tail(data), section_start, section_end)
  ELSE TextsIn(Tail(data), section_start, section_end)

\* line 325, in ticks
SectionEnd(secs, i, duration) ==
  IF i < Len(secs) THEN secs[i + 1].timestamp * TicksPerSec ELSE duration

\* lines 323-332
WithContent(secs, data, duration) ==
  [i \in 1..Len(secs) |->
     [secs[i] EXCEPT !.content =
        Join(TextsIn(data, secs[i].timestamp, SectionEnd(secs, i, duration)))]]

\* ------------------------------------------------------------- even split
\* line 356
TotalDuration(data) == data[Len(data)].start + data[Len(data)].duration

\* Diff measured from the end of interval i instead of its start
Diff_IntervalEnd(data, k, i, n) == Abs(data[k].start * n - (i + 1) * TotalDuration(data))

\* lines 366, 369: abs(item.start - i * total / n), times n
Diff(data, k, i, n) == Abs(data[k].start * n - i * TotalDuration(data))

\* lines 365-372: the loop over segments k..len, carrying closest_idx (1-based here)
RECURSIVE ClosestFrom(_, _, _, _, _)
ClosestFrom(data, i, n, k, closest_idx) ==
  IF k > Len(data) THEN closest_idx
  ELSE ClosestFrom(data, i, n, k + 1,
                   IF Diff(data, k, i, n) < Diff(data, closest_idx, i, n)
                   THEN k ELSE closest_idx)

ClosestIdx(data, i, n) == ClosestFrom(data, i, n, 1, 1)

\* lines 375-380: the loop over segments k..len; text + " " until the break
RECURSIVE ContentFrom(_, _, _, _)
ContentFrom(data, i, n, k) ==
  IF k > Len(data) THEN <<>>
  ELSE IF data[k].start * n >= (i + 1) * TotalDuration(data) /\ i < n - 1 THEN <<>>
  ELSE data[k].text \o <<" ">> \o ContentFrom(data, i, n, k + 1)

\* lines 361-386: section i (0-based) of n
EvenSection(data, i, n) ==
  LET closest_idx == ClosestIdx(data, i, n)
  IN [timestamp |-> data[closest_idx].start \div TicksPerSec,
      title |-> None,
      content |-> ContentFrom(data, i, n, closest_idx)]

\* the even split stopping when it runs out of segments: one section per segment at most
create_logical_sections_fallback_PerSegment(data, n) ==
  IF data = <<>> THEN [raised |-> FALSE, value |-> <<>>]
  ELSE IF n = 0 THEN [raised |-> TRUE, value |-> <<>>]
  ELSE [raised |-> FALSE,
        value |-> [i \in 1..(IF n < Len(data) THEN n ELSE Len(data)) |->
                     EvenSection(data, i - 1, n)]]

\* lines 349-388; raised: ZeroDivisionError at line 357
create_logical_sections_fallback(data, n) ==
  IF data = <<>> THEN [raised |-> FALSE, value |-> <<>>]
  ELSE IF n = 0 THEN [raised |-> TRUE, value |-> <<>>]
  ELSE [raised |-> FALSE, value |-> [i \in 1..n |-> EvenSection(data, i - 1, n)]]

\* ------------------------------------------------------------- input domains
Str_abc == <<"a", "b", "c">>
Str_go_on == <<"g", "o", " ", "o", "n">>
Str_Abc_Go == <<"A", "b", "c", " ", "G", "o", " ">>
Str_abc_xyz == <<"a", "b", "c", " ", "x", "y", "z">>

SegTexts == {Str_abc, Str_go_on}
Phrases == {Str_go_on, Str_Abc_Go, Str_abc_xyz}

\* the distance between consecutive segment starts: one tick, or one tick more than 3 s
PlanGaps == {1, 3 * TicksPerSec + 1}
\* the last segment's duration: 0 s, 720 s (a 12-minute video)
PlanDurations == {0, 720 * TicksPerSec}

NonDecreasing(starts) == \A k \in 1..(Len(starts) - 1) : starts[k] <= starts[k + 1]

SeqsUpTo(S, n) == UNION {[1..k -> S] : k \in 0..n}

\* 1 .. MaxSegs segments, evenly spaced from 0
PlanTranscripts ==
  {[k \in 1..Len(tx) |-> [text |-> tx[k], start |-> (k - 1) * g, duration |-> d]] :
     <<tx, g, d>> \in
       {<<a, b, c>> \in (SeqsUpTo(SegTexts, MaxSegs) \X PlanGaps \X PlanDurations) :
          Len(a) >= 1}}

\* the collaborator's JSON arrays: item k carries the title <<"T", k>>; a first item
\* whose phrase is "go on" lacks the title key
LLMArrays ==
  {[k \in 1..Len(ph) |-> [is_object |-> TRUE,
                          has_title |-> ~(ph[k] = Str_go_on /\ k = 1),
                          title |-> <<"T", k>>,
                          first_sentence |-> ph[k]]] :
     ph \in SeqsUpTo(Phrases, MaxProps)}

\* an array element that is not a JSON object (a string, a number, a list)
NonObject ==
  [is_object |-> FALSE, has_title |-> FALSE, title |-> None, first_sentence |-> <<>>]

\* arrays whose first element that is not an object follows 0 .. MaxProps - 1 objects
LLMArraysWithNonObject == {Append(a, NonObject) : a \in {x \in LLMArrays : Len(x) < MaxProps}}

\* ------------------------------------------------------------- the planner
InitCommon ==
  /\ target_sections = 0
  /\ target_count = 0
  /\ llm_sections = <<>>
  /\ llm_outcome = "none"
  /\ idx = 0
  /\ resolved = <<>>
  /\ sections = <<>>
  /\ result = <<>>
  /\ via = "none"

\* no enrichment call and no request is in progress
EnrichIdle ==
  /\ questions_text = None
  /\ questions = <<>>
  /\ quiz_text = None
  /\ quiz_questions = <<>>

PipeIdle ==
  /\ transcript_cache = <<>>
  /\ req = <<>>

\* no call of the planner is in progress
PlannerIdle ==
  /\ transcript_data = <<>>
  /\ video_duration = 0
  /\ InitCommon

\* a request reaches create_sections_with_llm (lines 969-976, 1104-1111, 1184-1193)
Init ==
  /\ transcript_data \in PlanTranscripts
  /\ video_duration = TotalDuration(transcript_data)
  /\ pc = "start"
  /\ InitCommon
  /\ EnrichIdle
  /\ PipeIdle

\* lines 176-189
DetermineTarget ==
  /\ pc = "start"
  /\ target_sections' = TargetSections(video_duration)
  /\ pc' = "ask"
  /\ UNCHANGED <<transcript_data, video_duration, target_count, llm_sections,
                 llm_outcome, idx, resolved, sections, result, via>>
  /\ UNCHANGED <<enrichVars, pipeVars>>

\* the failure leaves the planner as an exception
ReturnFallback_Raise ==
  /\ result' = <<>>
  /\ via' = "error"
  /\ pc' = "done"

\* return create_logical_sections_fallback(transcript_data, target_sections)
ReturnFallback ==
  LET r == create_logical_sections_fallback(transcript_data, target_sections)
  IN /\ result' = r.value
     /\ via' = IF r.raised THEN "error" ELSE "fallback"
     /\ pc' = "done"

\* lines 226-234 raise; lines 342-346
LLMCallFails ==
  /\ pc = "ask"
  /\ llm_outcome' = "raise"
  /\ ReturnFallback
  /\ UNCHANGED <<transcript_data, video_duration, target_sections, target_count,
                 llm_sections, idx, resolved, sections>>
  /\ UNCHANGED <<enrichVars, pipeVars>>

\* lines 240-243
NoJsonArray ==
  /\ pc = "ask"
  /\ llm_outcome' = "nojson"
  /\ ReturnFallback
  /\ UNCHANGED <<transcript_data, video_duration, target_sections, target_count,
                 llm_sections, idx, resolved, sections>>
  /\ UNCHANGED <<enrichVars, pipeVars>>

\* lines 245-250
JsonDecodeError ==
  /\ pc = "ask"
  /\ llm_outcome' = "badjson"
  /\ ReturnFallback
  /\ UNCHANGED <<transcript_data, video_duration, target_sections, target_count,
                 llm_sections, idx, resolved, sections>>
  /\ UNCHANGED <<enrichVars, pipeVars>>

\* lines 246-256
ParseArray ==
  /\ pc = "ask"
  /\ \E a \in LLMArrays \cup LLMArraysWithNonObject : llm_sections' = a
  /\ llm_outcome' = "array"
  /\ idx' = 0
  /\ sections' = <<>>
  /\ pc' = IF llm_sections' = <<>> THEN "sanitize" ELSE "match"
  /\ UNCHANGED <<transcript_data, video_duration, target_sections, target_count,
                 resolved, result, via>>
  /\ UNCHANGED <<enrichVars, pipeVars>>

\* lines 258-302, one iteration
MatchSection ==
  /\ pc = "match"
  /\ idx < Len(llm_sections)
  /\ llm_sections[idx + 1].is_object
  /\ LET llm_section == llm_sections[idx + 1]
         best == BestMatch(FirstSentence(llm_section), transcript_data)
         timestamp == ResolveTimestamp(best, transcript_data, video_duration,
                                       idx, Len(llm_sections))
     IN /\ sections' = Append(sections, [timestamp |-> timestamp,
                                         title |-> TitleOf(llm_section, idx),
                                         content |-> None])
        /\ resolved' = Append(resolved,
                              [source |-> IF Accepted(best.best_score)
                                          THEN "MATCHED" ELSE "FALLBACK",
                               confidence |-> best.best_score,
                               best_match_idx |-> best.best_match_idx,
                               timestamp |-> timestamp])
  /\ idx' = idx + 1
  /\ pc' = IF idx' = Len(llm_sections) THEN "sanitize" ELSE "match"
  /\ UNCHANGED <<transcript_data, video_duration, target_sections, target_count,
                 llm_sections, llm_outcome, result, via>>
  /\ UNCHANGED <<enrichVars, pipeVars>>

\* line 259: llm_section.get raises AttributeError on an element that is not a dict;
\* lines 342-346
ElementNotObject ==
  /\ pc = "match"
  /\ idx < Len(llm_sections)
  /\ ~llm_sections[idx + 1].is_object
  /\ ReturnFallback
  /\ UNCHANGED <<transcript_data, video_duration, target_sections, target_count,
                 llm_sections, llm_outcome, idx, resolved, sections>>
  /\ UNCHANGED <<enrichVars, pipeVars>>

\* lines 304-318
SanitizeSections ==
  /\ pc = "sanitize"
  /\ sections' = Sanitize(sections)
  /\ pc' = "extract"
  /\ UNCHANGED <<transcript_data, video_duration, target_sections, target_count,
                 llm_sections, llm_outcome, idx, resolved, result, via>>
  /\ UNCHANGED <<enrichVars, pipeVars>>

\* lines 320-333
ExtractContent ==
  /\ pc = "extract"
  /\ sections' = WithContent(sections, transcript_data, video_duration)
  /\ pc' = "gate"
  /\ UNCHANGED <<transcript_data, video_duration, target_sections, target_count,
                 llm_sections, llm_outcome, idx, resolved, result, via>>
  /\ UNCHANGED <<enrichVars, pipeVars>>

\* the gate fires on an empty list only
TooFew_OnlyEmpty(secs) == secs = <<>>

\* line 335: len(sections) < 2
TooFew(secs) == Len(secs) < 2

\* lines 335-337
TooFewSections ==
  /\ pc = "gate"
  /\ TooFew(sections)
  /\ ReturnFallback
  /\ UNCHANGED <<transcript_data, video_duration, target_sections, target_count,
                 llm_sections, llm_outcome, idx, resolved, sections>>
  /\ UNCHANGED <<enrichVars, pipeVars>>

\* lines 339-340
ReturnSections ==
  /\ pc = "gate"
  /\ ~TooFew(sections)
  /\ result' = sections
  /\ via' = "llm"
  /\ pc' = "done"
  /\ UNCHANGED <<transcript_data, video_duration, target_sections, target_count,
                 llm_sections, llm_outcome, idx, resolved, sections>>
  /\ UNCHANGED <<enrichVars, pipeVars>>

Next ==
  \/ DetermineTarget
  \/ LLMCallFails
  \/ NoJsonArray
  \/ JsonDecodeError
  \/ ParseArray
  \/ MatchSection
  \/ ElementNotObject
  \/ SanitizeSections
  \/ ExtractContent
  \/ TooFewSections
  \/ ReturnSections

Spec == Init /\ [][Next]_vars

\* ------------------------------------------------------------- sanitation alone
\* candidate timestamps, in seconds
CandTimes == {0, 3, 9, 12, 40, 47}

\* one segment per distinct candidate timestamp, in ascending order
RECURSIVE SegmentsAt(_)
SegmentsAt(times) ==
  IF times = {} THEN <<>>
  ELSE LET m == CHOOSE t \in times : \A u \in times : t <= u
       IN <<[text |-> Str_abc, start |-> m * TicksPerSec, duration |-> TicksPerSec]>>
          \o SegmentsAt(times \ {m})

\* the state after STEP 3 (line 302) with the candidate timestamps c
InitSanitize ==
  /\ \E c \in SeqsUpTo(CandTimes, MaxCands) :
       /\ sections = [k \in 1..Len(c) |->
                        [timestamp |-> c[k], title |-> <<"T", k>>, content |-> None]]
       /\ transcript_data = SegmentsAt({c[k] : k \in 1..Len(c)} \cup {0})
  /\ video_duration = TotalDuration(transcript_data)
  /\ target_sections = TargetSections(video_duration)
  /\ target_count = 0
  /\ llm_sections = <<>>
  /\ llm_outcome = "array"
  /\ idx = Len(sections)
  /\ resolved = [k \in 1..Len(sections) |->
                   [source |-> "MATCHED", confidence |-> Frac(1, 1),
                    best_match_idx |-> 0, timestamp |-> sections[k].timestamp]]
  /\ result = <<>>
  /\ via = "none"
  /\ pc = "sanitize"
  /\ EnrichIdle
  /\ PipeIdle

NextSanitize ==
  \/ SanitizeSections
  \/ ExtractContent
  \/ TooFewSections
  \/ ReturnSections

SpecSanitize == InitSanitize /\ [][NextSanitize]_vars

\* ------------------------------------------------------------- even split alone
\* segment starts: 0 s, one tick, 1 s, 10 s, 20 s, 30 s
EvenStarts == {0, 1, TicksPerSec, 10 * TicksPerSec, 20 * TicksPerSec, 30 * TicksPerSec}
EvenDurations == {0, 10 * TicksPerSec}
Letters == <<"a", "b", "c", "d", "e", "f", "g", "h">>

\* segment k carries the one-letter text Letters[k]
EvenTranscripts ==
  {[k \in 1..Len(st) |-> [text |-> <<Letters[k]>>, start |-> st[k], duration |-> d]] :
     <<st, d>> \in
       {<<a, c>> \in (SeqsUpTo(EvenStarts, MaxEvenSegs) \X EvenDurations) :
          NonDecreasing(a)}}

\* a call create_logical_sections_fallback(transcript_data, target_count)
InitEven ==
  /\ transcript_data \in EvenTranscripts
  /\ target_count \in 0..MaxTarget
  /\ video_duration = IF transcript_data = <<>> THEN 0 ELSE TotalDuration(transcript_data)
  /\ target_sections = 0
  /\ llm_sections = <<>>
  /\ llm_outcome = "none"
  /\ idx = 0
  /\ resolved = <<>>
  /\ sections = <<>>
  /\ result = <<>>
  /\ via = "none"
  /\ pc = "even"
  /\ EnrichIdle
  /\ PipeIdle

\* lines 349-388
EvenSplit ==
  /\ pc = "even"
  /\ LET r == create_logical_sections_fallback(transcript_data, target_count)
     IN /\ result' = r.value
        /\ via' = IF r.raised THEN "error" ELSE "fallback"
  /\ pc' = "done"
  /\ UNCHANGED <<transcript_data, video_duration, target_sections, target_count,
                 llm_sections, llm_outcome, idx, resolved, sections>>
  /\ UNCHANGED <<enrichVars, pipeVars>>

NextEven == EvenSplit

SpecEven == InitEven /\ [][NextEven]_vars

\* ------------------------------------------------------------- length policy alone
\* videos of 0 .. MaxMinutes minutes, in steps of half a minute
InitTarget ==
  /\ \E h \in 0..(2 * MaxMinutes) :
       transcript_data = <<[text |-> Str_abc, start |-> 0,
                            duration |-> h * 30 * TicksPerSec]>>
  /\ video_duration = TotalDuration(transcript_data)
  /\ pc = "start"
  /\ InitCommon
  /\ EnrichIdle
  /\ PipeIdle

NextTarget == DetermineTarget

SpecTarget == InitTarget /\ [][NextTarget]_vars

\* ------------------------------------------------------------- properties
Timestamps(secs) == [i \in 1..Len(secs) |-> secs[i].timestamp]

StrictlyIncreasing(ts) == \A i \in 1..(Len(ts) - 1) : ts[i] < ts[i + 1]

\* the window of section i of secs, in ticks: [WinStart, WinEnd)
WinStart(secs, i) == secs[i].timestamp * TicksPerSec
WinEnd(secs, i) ==
  IF i = Len(secs) THEN video_duration ELSE secs[i + 1].timestamp * TicksPerSec

\* the indices of the segments whose start lies in the window of section i
SegsInWindow(secs, i) ==
  {k \in 1..Len(transcript_data) :
     /\ WinStart(secs, i) <= transcript_data[k].start
     /\ transcript_data[k].start < WinEnd(secs, i)}

\* the texts of the segments of index set K, in transcript order, joined by " "
RECURSIVE JoinedTexts(_, _)
JoinedTexts(K, from) ==
  IF \A k \in K : k < from THEN <<>>
  ELSE LET k == CHOOSE m \in K : m >= from /\ \A u \in K : u >= from => m <= u
           rest == JoinedTexts(K, k + 1)
       IN IF rest = <<>> THEN transcript_data[k].text
          ELSE transcript_data[k].text \o <<" ">> \o rest

ReturnedFromBoundaries == pc = "done" /\ via = "llm"

\* C1: the sections built from resolved boundaries start at 0, each ends where the
\* next one starts, the last ends at video_duration, and the windows partition
\* [0, video_duration): every segment before video_duration is in exactly one window
C1_SectionsCoverVideo ==
  ReturnedFromBoundaries =>
    /\ result[1].timestamp = 0
    /\ StrictlyIncreasing(Timestamps(result))
    /\ WinStart(result, Len(result)) <= video_duration
    /\ \A k \in 1..Len(transcript_data) :
         transcript_data[k].start < video_duration =>
           Cardinality({i \in 1..Len(result) : k \in SegsInWindow(result, i)}) = 1

\* C2: the content of section i is the in-order concatenation of the texts of the
\* segments whose start lies in [start_i, end_i), end_i being the next section's
\* timestamp (video_duration for the last one); no segment is in two sections
C2_ContentIsWindowText ==
  ReturnedFromBoundaries =>
    /\ \A i \in 1..Len(result) :
         result[i].content = JoinedTexts(SegsInWindow(result, i), 1)
    /\ \A i, j \in 1..Len(result) :
         i # j => SegsInWindow(result, i) \cap SegsInWindow(result, j) = {}

\* C2 happens: two sections returned, none empty, one joining several segments
C2_Witness ==
  /\ ReturnedFromBoundaries
  /\ Len(result) = 2
  /\ \A i \in 1..2 : SegsInWindow(result, i) # {}
  /\ \E i \in 1..2 : Cardinality(SegsInWindow(result, i)) >= 2
  /\ result[1].timestamp > 0

\* C3: every list the planner returns has strictly increasing timestamps
C3_TimestampsStrictlyIncrease ==
  (pc = "done" /\ via \in {"llm", "fallback"}) =>
    StrictlyIncreasing(Timestamps(result))

\* C4: fewer than target_count / 2 boundaries retained after sanitation => the
\* output is the even split of (segments, target_count), target_count sections
C4_FewBoundariesGiveEvenSplit ==
  (pc = "done" /\ llm_outcome = "array" /\ 2 * Len(sections) < target_sections) =>
    /\ result = create_logical_sections_fallback(transcript_data, target_sections).value
    /\ Len(result) = target_sections

\* the lower-cased phrase of proposal i is an exact substring of some window text
ExactInSomeWindow(i) ==
  \E k \in 1..Len(transcript_data) :
    Contains(CombinedText(transcript_data, k), Lower(llm_sections[i].first_sentence))

\* the lower-cased phrase of proposal i is an exact substring of some segment's text
ExactInOneSegment(i) ==
  \E k \in 1..Len(transcript_data) :
    Contains(Lower(transcript_data[k].text), Lower(llm_sections[i].first_sentence))

HasLongWord(phrase) == \E k \in 1..Len(Split(phrase)) : Len(Split(phrase)[k]) > MinWordLen

\* the timestamp of proposal i was taken from a segment, with confidence >= 0.95
MatchedWithConfidence(i) ==
  /\ resolved[i].source = "MATCHED"
  /\ resolved[i].timestamp =
       transcript_data[resolved[i].best_match_idx + 1].start \div TicksPerSec
  /\ FracGeq(resolved[i].confidence, Frac(95, 100))

\* C5 as stated: every phrase that is an exact substring of a window text is MATCHED
\* with confidence >= 0.95, phrases of short words included
C5_ExactSubstringMatched ==
  \A i \in 1..Len(resolved) : ExactInSomeWindow(i) => MatchedWithConfidence(i)

\* C5 as amended: the same for phrases with at least one word longer than 2 characters
C5_ExactSubstringWithLongWordMatched ==
  \A i \in 1..Len(resolved) :
    (ExactInSomeWindow(i) /\ HasLongWord(llm_sections[i].first_sentence))
      => MatchedWithConfidence(i)

\* C5 happens: a phrase with capitals that spans two segments was matched
C5_Witness ==
  \E i \in 1..Len(resolved) :
    /\ ExactInSomeWindow(i)
    /\ ~ExactInOneSegment(i)
    /\ llm_sections[i].first_sentence # Lower(llm_sections[i].first_sentence)
    /\ HasLongWord(llm_sections[i].first_sentence)
    /\ MatchedWithConfidence(i)

\* the candidate timestamps STEP 3 produced
Candidates == [i \in 1..Len(resolved) |-> resolved[i].timestamp]

\* the distinct values of ts in ascending order
RECURSIVE Ascending(_)
Ascending(S) ==
  IF S = {} THEN <<>>
  ELSE LET m == CHOOSE t \in S : \A u \in S : t <= u
       IN <<m>> \o Ascending(S \ {m})

\* sanitation as C6 states it: ascending distinct timestamps, the first one set to
\* 0 when it is at most 5 and left unchanged otherwise
StatedSanitation(ts) ==
  LET asc == Ascending({ts[i] : i \in 1..Len(ts)})
  IN IF asc # <<>> /\ asc[1] <= FirstTolerance THEN [asc EXCEPT ![1] = 0] ELSE asc

\* C6: after sanitation the timestamps are StatedSanitation of the candidates;
\* [12, 12, 47, 9] gives [9, 12, 47] and [3, 3, 40] gives [0, 40]
C6_SanitationAsStated ==
  pc = "extract" =>
    /\ Timestamps(sections) = StatedSanitation(Candidates)
    /\ (Candidates = <<12, 12, 47, 9>> => Timestamps(sections) = <<9, 12, 47>>)
    /\ (Candidates = <<3, 3, 40>> => Timestamps(sections) = <<0, 40>>)

EvenSplitDone == pc = "done" /\ transcript_data # <<>> /\ target_count >= 1

\* segment k is at minimum distance from i * total_duration / target_count
\* (both sides times target_count)
IsClosest(k, i) ==
  \A j \in 1..Len(transcript_data) :
    Abs(transcript_data[k].start * target_count - i * TotalDuration(transcript_data))
      <= Abs(transcript_data[j].start * target_count - i * TotalDuration(transcript_data))

\* segments starting at 0, 10, 20, 30 s, the last one 10 s long
IsExampleTranscript ==
  /\ Len(transcript_data) = 4
  /\ \A k \in 1..4 : transcript_data[k].start = (k - 1) * 10 * TicksPerSec
  /\ transcript_data[4].duration = 10 * TicksPerSec

\* C7: even split anchors section i at the start, in whole seconds, of a segment at
\* minimum distance from i * total_duration / target_count; starts [0, 10, 20, 30],
\* duration 40, target_count 2 give the anchors [0, 20]
C7_AnchorsAtClosestSegment ==
  EvenSplitDone =>
    /\ Len(result) = target_count
    /\ \A i \in 0..(target_count - 1) :
         \E k \in 1..Len(transcript_data) :
           /\ IsClosest(k, i)
           /\ result[i + 1].timestamp = transcript_data[k].start \div TicksPerSec
    /\ (IsExampleTranscript /\ target_count = 2 => Timestamps(result) = <<0, 20>>)

\* C7 happens: the example has been split
C7_Witness ==
  /\ EvenSplitDone
  /\ IsExampleTranscript
  /\ target_count = 2
  /\ Timestamps(result) = <<0, 20>>

\* C8: given at least one segment and target_count >= 1, even split raises no
\* error and returns exactly target_count sections
C8_EvenSplitAlwaysSucceeds ==
  EvenSplitDone => (via = "fallback" /\ Len(result) = target_count)

\* C8 happens: one segment of zero duration split into more sections than segments
C8_Witness ==
  /\ EvenSplitDone
  /\ Len(transcript_data) = 1
  /\ transcript_data[1].duration = 0
  /\ target_count > 1
  /\ via = "fallback"
  /\ Len(result) = target_count

\* C10: the target count never decreases as the video gets longer and never
\* exceeds 20; a 12-minute video gets 8
C10_TargetMonotoneAndCapped ==
  pc = "ask" =>
    /\ target_sections <= 20
    /\ \A m \in 0..VideoMinutes(video_duration) :
         TargetForMinutes(m) <= target_sections
    /\ (VideoMinutes(video_duration) = 12 => target_sections = 8)

\* C10 happens: a 41-minute video, just past the fixed table, gets 13 > 12
C10_Witness ==
  /\ pc = "ask"
  /\ VideoMinutes(video_duration) = 41
  /\ TargetForMinutes(40) = 12
  /\ target_sections = 13

\* ------------------------------------------------------------- follow-up questions
NumQuestions == 3
MinQuestionLen == 10

IsDigit(c) == c \in {"0", "1", "2", "3", "4", "5", "6", "7", "8", "9"}

RECURSIVE LStripSet(_, _)
LStripSet(s, cs) ==
  IF s # <<>> /\ Head(s) \in cs THEN LStripSet(Tail(s), cs) ELSE s

RECURSIVE RStripSet(_, _)
RStripSet(s, cs) ==
  IF s # <<>> /\ s[Len(s)] \in cs THEN RStripSet(SubSeq(s, 1, Len(s) - 1), cs) ELSE s

RECURSIVE LeadingDigits(_)
LeadingDigits(s) ==
  IF s # <<>> /\ IsDigit(Head(s)) THEN 1 + LeadingDigits(Tail(s)) ELSE 0

\* line 492: re.sub(r'^\d+[\.)]\s*', '', line)
StripEnumeration(line) ==
  LET n == LeadingDigits(line)
  IN IF n >= 1 /\ Len(line) > n /\ line[n + 1] \in {".", ")"}
     THEN LStrip(SubSeq(line, n + 2, Len(line)))
     ELSE line

\* line 493: line.strip('"\'')
StripQuotes(line) == RStripSet(LStripSet(line, {"\"", "'"}), {"\"", "'"})

\* lines 491-493
CleanLine(line) == StripQuotes(StripEnumeration(Strip(line)))

\* a cleaned line of MinQuestionLen characters is kept as well
Kept_AtLeast(line) == line # <<>> /\ Len(line) >= MinQuestionLen

\* line 494: if line and len(line) > 10
Kept(line) == line # <<>> /\ Len(line) > MinQuestionLen

\* lines 489-495
RECURSIVE ParseQuestions(_)
ParseQuestions(lines) ==
  IF lines = <<>> THEN <<>>
  ELSE LET line == CleanLine(Head(lines))
       IN (IF Kept(line) THEN <<line>> ELSE <<>>) \o ParseQuestions(Tail(lines))

\* lines 498-502
fallbacks ==
  << <<"Why does this work the way it does?">>,
     <<"How does this concept connect to the bigger picture?">>,
     <<"What's the key difference between the approaches mentioned?">> >>

\* lines 510-514
ErrorQuestions ==
  << <<"Can you explain the reasoning behind this?">>,
     <<"What's the fundamental difference here?">>,
     <<"Why is this approach used instead of alternatives?">> >>

\* lines 503-504: while len(questions) < 3: questions.append(fallbacks[len(questions)])
RECURSIVE PadQuestions(_)
PadQuestions(qs) ==
  IF Len(qs) < NumQuestions THEN PadQuestions(Append(qs, fallbacks[Len(qs) + 1])) ELSE qs

\* lines 446-514; text.raised: the call or the reading of its answer raised
generate_section_questions(text) ==
  IF text.raised THEN ErrorQuestions
  ELSE SubSeq(PadQuestions(ParseQuestions(text.lines)), 1, NumQuestions)

MaxLines == 4

Line_Numbered == <<"1", ".", " ", "W", "h", "y", " ", "i", "s", " ", "i", "t", " ", "s", "o", "?">>
Line_Quoted == <<" ", "2", ")", " ", "\"", "H", "o", "w", " ", "d", "o", "e", "s", " ", "i", "t", " ", "g", "o", "?", "\"", " ">>
Line_ShortQuoted == <<"3", ".", " ", "\"", "a", "b", "c", "d", "e", "f", "g", "h", "\"">>
Line_Ten == <<"a", "b", "c", "d", "e", "f", "g", "h", "i", "j">>
Line_Eleven == <<"'", "a", "b", "c", "d", "e", "f", "g", "h", "i", "j", "k", "'">>
QuestionLines == {Line_Numbered, Line_Quoted, Line_ShortQuoted, Line_Ten, Line_Eleven, <<>>}

\* a call generate_section_questions(section_text, section_title)
InitQuestions ==
  /\ PlannerIdle
  /\ PipeIdle
  /\ pc = "questions"
  /\ questions_text \in {[raised |-> TRUE, lines |-> <<>>]}
                         \cup {[raised |-> FALSE, lines |-> ls] :
                                 ls \in SeqsUpTo(QuestionLines, MaxLines)}
  /\ questions = <<>>
  /\ quiz_text = None
  /\ quiz_questions = <<>>

\* lines 446-514
GenerateQuestions ==
  /\ pc = "questions"
  /\ questions' = generate_section_questions(questions_text)
  /\ pc' = "questions_done"
  /\ UNCHANGED <<transcript_data, video_duration, target_sections, target_count,
                 llm_sections, llm_outcome, idx, resolved, sections, result, via>>
  /\ UNCHANGED <<questions_text, quiz_text, quiz_questions, pipeVars>>

NextQuestions == GenerateQuestions

SpecQuestions == InitQuestions /\ [][NextQuestions]_vars

\* the cleaned lines of more than 10 characters, in order
Surviving(lines) ==
  SelectSeq([k \in 1..Len(lines) |-> CleanLine(lines[k])],
            LAMBDA l : Len(l) >= 11)

\* C12: generate_section_questions returns exactly 3 questions: the k < 3 surviving
\* lines followed by 3 - k fixed filler questions, the first 3 surviving lines when
\* more survive, and 3 fixed questions when the call fails
C12_AlwaysThreeQuestions ==
  pc = "questions_done" =>
    /\ Len(questions) = 3
    /\ questions_text.raised => questions = ErrorQuestions
    /\ ~questions_text.raised =>
         LET s == Surviving(questions_text.lines)
             k == IF Len(s) < 3 THEN Len(s) ELSE 3
         IN /\ SubSeq(questions, 1, k) = SubSeq(s, 1, k)
            /\ \A j \in (k + 1)..3 : \E f \in 1..3 : questions[j] = fallbacks[f]

\* one numbered line survives, a 10-character line and a short quoted line are dropped:
\* one parsed question and two fillers
C12_Witness ==
  /\ pc = "questions_done"
  /\ ~questions_text.raised
  /\ questions_text.lines = <<Line_Ten, Line_Numbered, Line_ShortQuoted>>
  /\ questions = <<<<"W", "h", "y", " ", "i", "s", " ", "i", "t", " ", "s", "o", "?">>, fallbacks[2], fallbacks[3]>>

\* ------------------------------------------------------------- quiz questions
\* A block of the answer is a sequence of lines [label, body]: "Q: body", "A) body" ..
\* "D) body", "CORRECT: body", "EXPLANATION: body"; a text that spans lines is the
\* sequence of their bodies.
NumQuiz == 3
NumOptions == 4
OptionLetters == <<"A", "B", "C", "D">>
OptionLabels == {OptionLetters[k] : k \in 1..NumOptions}

NoMatch == [found |-> FALSE, text |-> <<>>]

\* the first line at or after from with a label in labels, 0 when there is none
FirstLine(block, labels, from) ==
  LET S == {i \in from..Len(block) : block[i].label \in labels}
  IN IF S = {} THEN 0 ELSE CHOOSE i \in S : \A j \in S : i <= j

Bodies(block, i, j) == [k \in 1..(j - i + 1) |-> block[i + k - 1].body]

\* line 577: re.search(r'Q:\s*(.+?)(?=\n[A-D]\))', block, re.DOTALL)
QuestionMatch(block) ==
  LET q == FirstLine(block, {"Q"}, 1)
      o == IF q = 0 THEN 0 ELSE FirstLine(block, OptionLabels, q + 1)
  IN IF o = 0 THEN NoMatch ELSE [found |-> TRUE, text |-> Bodies(block, q, o - 1)]

\* line 585: re.search(rf'{letter}\)\s*(.+?)(?=\n[A-D]\)|CORRECT:|$)', block, re.DOTALL)
OptionMatch(block, letter) ==
  LET i == FirstLine(block, {letter}, 1)
      e == IF i = 0 THEN 0 ELSE FirstLine(block, OptionLabels \cup {"CORRECT"}, i + 1)
  IN IF i = 0 THEN NoMatch
     ELSE [found |-> TRUE,
           text |-> Bodies(block, i, IF e = 0 THEN Len(block) ELSE e - 1)]

\* lines 583-587: the options dict
Options(block) ==
  [letter \in {l \in OptionLabels : OptionMatch(block, l).found} |->
     OptionMatch(block, letter).text]

UpperLetter(c) ==
  IF c = "a" THEN "A" ELSE IF c = "b" THEN "B" ELSE IF c = "c" THEN "C"
  ELSE IF c = "d" THEN "D" ELSE c

\* lines 589-590: re.search(r'CORRECT:\s*([A-D])', block, re.IGNORECASE), default 'A'
Correct(block) ==
  LET S == {i \in 1..Len(block) : /\ block[i].label = "CORRECT"
                                   /\ UpperLetter(block[i].body) \in OptionLabels}
  IN IF S = {} THEN "A"
     ELSE UpperLetter(block[CHOOSE i \in S : \A j \in S : i <= j].body)

\* lines 592-593: re.search(r'EXPLANATION:\s*(.+?)(?=$)', ...), with its default
Explanation(block) ==
  LET i == FirstLine(block, {"EXPLANATION"}, 1)
  IN IF i = 0 THEN <<"This is the correct answer.">> ELSE Bodies(block, i, Len(block))

\* lines 596-601: the item built from a block
QuizItem(block) ==
  [question |-> QuestionMatch(block).text, options |-> Options(block),
   correct |-> Correct(block), explanation |-> Explanation(block)]

\* a block with 3 or more options is accepted
Accepted_ThreeOptions(block) ==
  /\ block # <<>>
  /\ QuestionMatch(block).found
  /\ Cardinality(DOMAIN Options(block)) >= NumOptions - 1

\* lines 574-579, 595: the block is not skipped and its item is appended
AcceptedBlock(block) ==
  /\ block # <<>>
  /\ QuestionMatch(block).found
  /\ Cardinality(DOMAIN Options(block)) = NumOptions

\* lines 573-601
RECURSIVE ParseBlocks(_)
ParseBlocks(blocks) ==
  IF blocks = <<>> THEN <<>>
  ELSE (IF AcceptedBlock(Head(blocks)) THEN <<QuizItem(Head(blocks))>> ELSE <<>>)
       \o ParseBlocks(Tail(blocks))

\* lines 607-612
TitlePlaceholder(section_title) ==
  [question |-> <<"What is discussed in ", section_title, "?">>,
   options |-> [l \in OptionLabels |->
                  IF l = "A" THEN <<section_title>>
                  ELSE IF l = "B" THEN <<"Other topic">>
                  ELSE IF l = "C" THEN <<"Different concept">>
                  ELSE <<"Unrelated">>],
   correct |-> "A",
   explanation |-> <<"This section focuses on ", section_title, ".">>]

\* lines 616-621
ErrorPlaceholder ==
  [question |-> <<"What is the key concept?">>,
   options |-> [l \in OptionLabels |-> <<"Concept ", l>>],
   correct |-> "C",
   explanation |-> <<"Based on content.">>]

\* lines 516-622; text.raised: the call or the reading of its answer raised
generate_quiz_questions(text) ==
  IF text.raised THEN [k \in 1..NumQuiz |-> ErrorPlaceholder]
  ELSE LET parsed == ParseBlocks(text.blocks)
       IN IF Len(parsed) >= NumQuiz THEN SubSeq(parsed, 1, NumQuiz)
          ELSE [k \in 1..NumQuiz |-> TitlePlaceholder(text.section_title)]

MaxBlocks == 4
MaxSections == 24

Ln(label, body) == [label |-> label, body |-> body]

Block_Full ==
  <<Ln("Q", "q1"), Ln("A", "a1"), Ln("B", "b1"), Ln("C", "c1"), Ln("D", "d1"),
    Ln("CORRECT", "B"), Ln("EXPLANATION", "e1")>>
Block_LowerCorrect ==
  <<Ln("Q", "q2"), Ln("A", "a2"), Ln("B", "b2"), Ln("C", "c2"), Ln("D", "d2"),
    Ln("CORRECT", "d"), Ln("EXPLANATION", "e2")>>
Block_NoCorrect ==
  <<Ln("Q", "q3"), Ln("A", "a3"), Ln("B", "b3"), Ln("C", "c3"), Ln("D", "d3")>>
Block_MissingOption ==
  <<Ln("Q", "q4"), Ln("A", "a4"), Ln("B", "b4"), Ln("D", "d4"),
    Ln("CORRECT", "A"), Ln("EXPLANATION", "e4")>>
Block_NoQuestion ==
  <<Ln("A", "a5"), Ln("B", "b5"), Ln("C", "c5"), Ln("D", "d5"), Ln("CORRECT", "C")>>
Block_QuestionLast ==
  <<Ln("A", "a6"), Ln("B", "b6"), Ln("C", "c6"), Ln("D", "d6"), Ln("Q", "q6")>>
QuizBlocks == {Block_Full, Block_LowerCorrect, Block_NoCorrect, Block_MissingOption,
               Block_NoQuestion, Block_QuestionLast, <<>>}

\* a call generate_quiz_questions(section_text, section_title)
InitQuiz ==
  /\ PlannerIdle
  /\ PipeIdle
  /\ pc = "quiz"
  /\ quiz_text \in {[raised |-> TRUE, blocks |-> <<>>, section_title |-> "Intro"]}
                    \cup {[raised |-> FALSE, blocks |-> bs, section_title |-> "Intro"] :
                            bs \in SeqsUpTo(QuizBlocks, MaxBlocks)}
  /\ quiz_questions = <<>>
  /\ questions_text = None
  /\ questions = <<>>

\* lines 516-622
GenerateQuiz ==
  /\ pc = "quiz"
  /\ quiz_questions' = generate_quiz_questions(quiz_text)
  /\ pc' = "quiz_done"
  /\ UNCHANGED <<transcript_data, video_duration, target_sections, target_count,
                 llm_sections, llm_outcome, idx, resolved, sections, result, via>>
  /\ UNCHANGED <<questions_text, questions, quiz_text, pipeVars>>

NextQuiz == GenerateQuiz

SpecQuiz == InitQuiz /\ [][NextQuiz]_vars

\* a block with a question line followed by an option line, and a line for each of
\* the four options
WellFormed(block) ==
  /\ \E i, j \in 1..Len(block) :
       i < j /\ block[i].label = "Q" /\ block[j].label \in {"A", "B", "C", "D"}
  /\ \A l \in {"A", "B", "C", "D"} : \E i \in 1..Len(block) : block[i].label = l

\* C11: generate_quiz_questions returns exactly 3 items: the first 3 valid blocks when
\* the answer has 3 or more, otherwise (fewer valid blocks, or a failed call) one
\* placeholder item 3 times, never parsed items mixed with placeholders
C11_ThreeItemsOrPlaceholder ==
  pc = "quiz_done" =>
    LET wf == SelectSeq(quiz_text.blocks, WellFormed)
    IN /\ Len(quiz_questions) = 3
       /\ IF ~quiz_text.raised /\ Len(wf) >= 3
          THEN \A k \in 1..3 : quiz_questions[k] = QuizItem(wf[k])
          ELSE /\ quiz_questions[1] \in {TitlePlaceholder(quiz_text.section_title),
                                         ErrorPlaceholder}
               /\ quiz_questions[2] = quiz_questions[1]
               /\ quiz_questions[3] = quiz_questions[1]

\* two well-formed blocks and one block without option C: three placeholders
C11_Witness ==
  /\ pc = "quiz_done"
  /\ quiz_text.blocks = <<Block_Full, Block_MissingOption, Block_LowerCorrect>>
  /\ quiz_questions = [k \in 1..3 |-> TitlePlaceholder("Intro")]

\* ------------------------------------------------------------- the planner as one call
\* create_sections_with_llm(transcript_text, transcript_data, video_duration) with the
\* collaborator's answer response = [outcome, items]
RECURSIVE MatchAll(_, _, _, _)
MatchAll(items, k, data, duration) ==
  IF k >= Len(items) THEN <<>>
  ELSE LET best == BestMatch(FirstSentence(items[k + 1]), data)
       IN <<[timestamp |-> ResolveTimestamp(best, data, duration, k, Len(items)),
             title |-> TitleOf(items[k + 1], k),
             content |-> None]>>
          \o MatchAll(items, k + 1, data, duration)

\* lines 167-346
create_sections_with_llm(data, duration, response) ==
  LET fb == create_logical_sections_fallback(data, TargetSections(duration)).value
      secs == WithContent(Sanitize(MatchAll(response.items, 0, data, duration)),
                          data, duration)
  IN IF response.outcome # "array" THEN fb
     ELSE IF \E k \in 1..Len(response.items) : ~response.items[k].is_object THEN fb
     ELSE IF TooFew(secs) THEN fb ELSE secs

\* ------------------------------------------------------------- the endpoints
ReqIds == {"r1", "r2"}
Videos == {"v1", "v2"}
Urls == Videos \cup {"bad"}
Endpoints == {"metadata", "batch", "stream"}
FULL_QUIZ_SECTIONS == 4

\* longer videos, by their length in minutes
LongMinutes == [w2 |-> 2, w4 |-> 4, w8 |-> 8, w12 |-> 12]
LongVideos == DOMAIN LongMinutes

\* lines 71-82: the video id of a url, or ValueError
extract_video_id(url) ==
  IF url \in Videos \cup LongVideos THEN [raised |-> FALSE, value |-> url]
  ELSE [raised |-> TRUE, value |-> "none"]

\* the transcript of each video: two or three segments over 8 s; two segments over
\* LongMinutes[v] minutes
VideoTranscript(v) ==
  IF v \in LongVideos
  THEN <<[text |-> Str_abc, start |-> 0, duration |-> TicksPerSec],
         [text |-> Str_go_on, start |-> LongMinutes[v] * SecPerMin * TicksPerSec,
          duration |-> 0]>>
  ELSE IF v = "v1"
  THEN <<[text |-> Str_abc, start |-> 0, duration |-> TicksPerSec],
         [text |-> Str_go_on, start |-> 8 * TicksPerSec, duration |-> 0]>>
  ELSE <<[text |-> Str_abc, start |-> 0, duration |-> TicksPerSec],
         [text |-> Str_abc, start |-> 4 * TicksPerSec, duration |-> TicksPerSec],
         [text |-> Str_go_on, start |-> 8 * TicksPerSec, duration |-> 0]>>

\* line 141: " ".join of the segment texts
TranscriptText(data) == Join([k \in 1..Len(data) |-> data[k].text])

\* the collaborator's answers to the boundary call: a failure, or two proposals
PipeResponses ==
  {[outcome |-> "raise", items |-> <<>>],
   [outcome |-> "array",
    items |-> <<[is_object |-> TRUE, has_title |-> TRUE, title |-> <<"T", 1>>,
                 first_sentence |-> Str_Abc_Go],
                [is_object |-> TRUE, has_title |-> TRUE, title |-> <<"T", 2>>,
                 first_sentence |-> Str_go_on]>>]}

\* what the calls of generate_section_html do: all succeed, the summary call raises,
\* or the questions / quiz calls fail
EnrichOutcomes == {"ok", "summary_fails", "quiz_fails"}

Event(type, stage, progress, n) ==
  [type |-> type, stage |-> stage, progress |-> progress, n |-> n]

NoResponse ==
  [status |-> "none", summary |-> <<>>, sections_meta |-> <<>>, total_sections |-> 0]

IdleRequest ==
  [endpoint |-> "none", url |-> "none", pc |-> "idle", video_id |-> "none",
   transcript_text |-> <<>>, transcript_data |-> <<>>, sections_data |-> <<>>,
   i |-> 0, all_sections_html |-> <<>>, events |-> <<>>, response |-> NoResponse,
   plan_id |-> "none", fetch_id |-> "none", fetch_calls |-> 0, plan_calls |-> 0,
   enrich_calls |-> 0, cache_writes |-> 0, write_order |-> 0, outcomes |-> <<>>,
   preceded_by |-> {}, failed_at |-> "none"]

\* the run ends without an error event
Failed_Silent(q, where) ==
  [q EXCEPT !.pc = "done",
            !.failed_at = where,
            !.response = IF q.endpoint = "stream" THEN @
                         ELSE [@ EXCEPT !.status = "error"]]

\* lines 997-1001, 1160-1164: the handler raises HTTPException;
\* lines 1244-1246: the stream yields one error event and ends
Failed(q, where) ==
  [q EXCEPT !.pc = "done",
            !.failed_at = where,
            !.response = IF q.endpoint = "stream" THEN @
                         ELSE [@ EXCEPT !.status = "error"],
            !.events = IF q.endpoint = "stream"
                       THEN Append(@, Event("error", "none", 0, 0)) ELSE @]

\* the entry is written without the transcript text
CacheEntry_NoText(q) ==
  [sections |-> q.sections_data, transcript_text |-> <<>>,
   plan_id |-> q.plan_id, fetch_id |-> q.fetch_id]

\* the entry keeps the transcript text already cached for the video
CacheEntry_KeepText(q) ==
  IF q.video_id \in DOMAIN transcript_cache
  THEN [transcript_cache[q.video_id] EXCEPT !.sections = q.sections_data,
                                            !.plan_id = q.plan_id]
  ELSE [sections |-> q.sections_data, transcript_text |-> q.transcript_text,
        plan_id |-> q.plan_id, fetch_id |-> q.fetch_id]

\* lines 981-984, 1114-1117: the dict assigned to transcript_cache[video_id];
\* plan_id and fetch_id name the calls that produced the two values
CacheEntry(q) ==
  [sections |-> q.sections_data, transcript_text |-> q.transcript_text,
   plan_id |-> q.plan_id, fetch_id |-> q.fetch_id]

\* lines 660-771: the HTML of one section
generate_section_html(section_data, section_index, generate_quiz, outcome) ==
  IF outcome = "summary_fails"
  THEN [index |-> section_index, kind |-> "error", has_quiz |-> FALSE,
        quiz |-> "none", timestamp |-> section_data.timestamp]
  ELSE [index |-> section_index, kind |-> "loaded", has_quiz |-> generate_quiz,
        quiz |-> IF ~generate_quiz THEN "none"
                 ELSE IF outcome = "quiz_fails" THEN "placeholder" ELSE "generated",
        timestamp |-> section_data.timestamp]

\* lines 1138-1145, 1222-1229
SectionsMeta(sections_data) ==
  [k \in 1..Len(sections_data) |->
     [index |-> k - 1, timestamp |-> sections_data[k].timestamp,
      title |-> sections_data[k].title, loaded |-> TRUE]]

\* the share of the sections done, as a percentage
SectionProgress_Percent(i, total_sections) == 30 + ((i * 100) \div total_sections)

\* line 1211: 30 + int((i / total_sections) * 65)
SectionProgress(i, total_sections) == 30 + ((i * 65) \div total_sections)

InitPipe ==
  /\ PlannerIdle
  /\ pc = "idle"
  /\ EnrichIdle
  /\ transcript_cache = <<>>
  /\ req = [r \in ReqIds |-> IdleRequest]

PipeFrame == UNCHANGED <<plannerVars, enrichVars>>

\* a request arrives at one of the three endpoints
Receive(r) ==
  /\ req[r].pc = "idle"
  /\ \E e \in Endpoints, u \in Urls :
       req' = [req EXCEPT ![r] =
                 [@ EXCEPT !.endpoint = e, !.url = u,
                           !.pc = IF e = "stream" THEN "init" ELSE "extract",
                           !.preceded_by = {x \in ReqIds : /\ req[x].pc = "done"
                                                            /\ req[x].failed_at = "none"}]]
  /\ UNCHANGED transcript_cache
  /\ PipeFrame

\* line 1175
StreamInit(r) ==
  /\ req[r].pc = "init"
  /\ req' = [req EXCEPT ![r] =
               [@ EXCEPT !.events = Append(@, Event("progress", "init", 0, 0)),
                         !.pc = "extract"]]
  /\ UNCHANGED transcript_cache
  /\ PipeFrame

\* the progressive endpoint consults the cache as the batch endpoint does
AfterExtract_StreamLooksUp(q) == IF q.endpoint = "metadata" THEN "fetch" ELSE "lookup"

\* line 1093 (batch): the cache lookup; lines 965, 1180: get_transcript comes next
AfterExtract(q) == IF q.endpoint = "batch" THEN "lookup" ELSE "fetch"

\* lines 957, 1089, 1177-1178
ExtractVideoId(r) ==
  /\ req[r].pc = "extract"
  /\ LET q == req[r]
         id == extract_video_id(q.url)
     IN req' = [req EXCEPT ![r] =
                  IF id.raised THEN Failed(q, "url")
                  ELSE [q EXCEPT !.video_id = id.value,
                                 !.pc = AfterExtract(q),
                                 !.events = IF q.endpoint = "stream"
                                            THEN Append(@, Event("progress", "transcript", 5, 0))
                                            ELSE @]]
  /\ UNCHANGED transcript_cache
  /\ PipeFrame

\* where the section loop continues: lines 1130, 1209
LoopPc(q, i) ==
  IF i < Len(q.sections_data)
  THEN (IF q.endpoint = "stream" THEN "announce" ELSE "enrich")
  ELSE "finish"

\* the lookup finds nothing
CacheHit_Never(q) == FALSE

\* lines 1093-1094: cached and 'sections' in cached and 'transcript_text' in cached
CacheHit(q) == q.video_id \in DOMAIN transcript_cache

\* lines 1093-1098: the batch endpoint looks the video up in the cache
LookupCache(r) ==
  /\ req[r].pc = "lookup"
  /\ LET q == req[r]
     IN req' = [req EXCEPT ![r] =
                  IF CacheHit(q)
                  THEN LET cached == transcript_cache[q.video_id]
                           hit == [q EXCEPT !.sections_data = cached.sections,
                                            !.transcript_text = cached.transcript_text,
                                            !.plan_id = cached.plan_id,
                                            !.fetch_id = cached.fetch_id]
                       IN [hit EXCEPT !.pc = LoopPc(hit, 0)]
                  ELSE [q EXCEPT !.pc = "fetch"]]
  /\ UNCHANGED transcript_cache
  /\ PipeFrame

\* the handler calls get_transcript again
AfterFetchFailure_Retry(q) == [q EXCEPT !.pc = "fetch"]

\* lines 997-998, 1160-1161, 1244-1246: the HTTPException of get_transcript ends the run
AfterFetchFailure(q) == Failed(q, "fetch")

\* lines 965, 1100, 1180-1190: get_transcript returns, or raises HTTPException
FetchTranscript(r) ==
  /\ req[r].pc = "fetch"
  /\ \E ok \in BOOLEAN :
       LET q == [req[r] EXCEPT !.fetch_calls = @ + 1]
           data == VideoTranscript(q.video_id)
       IN req' = [req EXCEPT ![r] =
                    IF ~ok THEN AfterFetchFailure(q)
                    ELSE [q EXCEPT !.transcript_data = data,
                                   !.transcript_text = TranscriptText(data),
                                   !.fetch_id = r,
                                   !.pc = "plan",
                                   !.events =
                                     IF q.endpoint = "stream"
                                     THEN @ \o <<Event("progress", "transcript", 15, 0),
                                                 Event("progress", "sections", 20, 0)>>
                                     ELSE @]]
  /\ UNCHANGED transcript_cache
  /\ PipeFrame

\* lines 969-977, 1104-1111, 1184-1196
PlanSections(r) ==
  /\ req[r].pc = "plan"
  /\ \E response \in PipeResponses :
       LET q == req[r]
           secs == create_sections_with_llm(q.transcript_data,
                                            TotalDuration(q.transcript_data), response)
       IN req' = [req EXCEPT ![r] =
                    [q EXCEPT !.sections_data = secs,
                              !.plan_id = r,
                              !.plan_calls = @ + 1,
                              !.pc = IF q.endpoint = "stream" THEN "messages" ELSE "cache",
                              !.events =
                                IF q.endpoint = "stream"
                                THEN Append(@, Event("progress", "sections", 25, Len(secs)))
                                ELSE @]]
  /\ UNCHANGED transcript_cache
  /\ PipeFrame

\* lines 981-984, 1114-1117
WriteCache(r) ==
  /\ req[r].pc = "cache"
  /\ LET q == req[r]
     IN /\ transcript_cache' =
             [v \in DOMAIN transcript_cache \cup {q.video_id} |->
                IF v = q.video_id THEN CacheEntry(q) ELSE transcript_cache[v]]
        /\ req' = [req EXCEPT ![r] =
                     [q EXCEPT !.cache_writes = @ + 1,
                               !.write_order =
                                 1 + Cardinality({x \in ReqIds : req[x].cache_writes > 0}),
                               !.pc = IF q.endpoint = "metadata" THEN "respond"
                                      ELSE LoopPc(q, 0)]]
  /\ PipeFrame

\* lines 1199-1204: generate_loading_messages never raises (lines 624-657)
LoadingMessages(r) ==
  /\ req[r].pc = "messages"
  /\ LET q == req[r]
     IN req' = [req EXCEPT ![r] =
                  [q EXCEPT !.events = Append(@, Event("loading_messages", "none", 0, 0)),
                            !.pc = LoopPc(q, 0)]]
  /\ UNCHANGED transcript_cache
  /\ PipeFrame

\* the marker carries the index i
CurrentSection_ZeroBased(i) == i

\* line 1214: 'currentSection': i + 1
CurrentSection(i) == i + 1

\* lines 1210-1214
AnnounceSection(r) ==
  /\ req[r].pc = "announce"
  /\ LET q == req[r]
     IN req' = [req EXCEPT ![r] =
                  [q EXCEPT !.events =
                              Append(@, Event("progress", "generating",
                                              SectionProgress(q.i, Len(q.sections_data)),
                                              CurrentSection(q.i))),
                            !.pc = "enrich"]]
  /\ UNCHANGED transcript_cache
  /\ PipeFrame

\* a section whose summary call raised is left out of the result
Enriched_SkipFailed(q, generate_quiz, outcome) ==
  [q EXCEPT !.all_sections_html =
              IF outcome = "summary_fails" THEN @
              ELSE Append(@, generate_section_html(q.sections_data[q.i + 1], q.i,
                                                   generate_quiz, outcome)),
            !.outcomes = Append(@, outcome),
            !.enrich_calls = @ + 1,
            !.i = @ + 1,
            !.pc = LoopPc(q, q.i + 1)]

\* lines 1130-1133, 1209-1217: one iteration of the section loop
Enriched(q, generate_quiz, outcome) ==
  [q EXCEPT !.all_sections_html =
              Append(@, generate_section_html(q.sections_data[q.i + 1], q.i,
                                              generate_quiz, outcome)),
            !.outcomes = Append(@, outcome),
            !.enrich_calls = @ + 1,
            !.i = @ + 1,
            !.pc = LoopPc(q, q.i + 1)]

\* the quiz is generated for the sections up to index FULL_QUIZ_SECTIONS
WithQuiz_UpTo(q) == q.endpoint = "stream" /\ q.i <= FULL_QUIZ_SECTIONS

\* line 1132: generate_quiz=False; line 1212: generate_quiz = i < FULL_QUIZ_SECTIONS
WithQuiz(q) == q.endpoint = "stream" /\ q.i < FULL_QUIZ_SECTIONS

\* lines 1132-1133, 1212-1217
EnrichSection(r) ==
  /\ req[r].pc = "enrich"
  /\ \E outcome \in EnrichOutcomes :
       LET q == req[r]
           generate_quiz == WithQuiz(q)
       IN /\ outcome = "quiz_fails" => generate_quiz
          /\ req' = [req EXCEPT ![r] = Enriched(q, generate_quiz, outcome)]
  /\ UNCHANGED transcript_cache
  /\ PipeFrame

\* lines 987-995 (metadata), 1135-1158 (batch): the handler returns
Respond(r) ==
  /\ req[r].endpoint # "stream"
  /\ req[r].pc \in {"respond", "finish"}
  /\ LET q == req[r]
     IN req' = [req EXCEPT ![r] =
                  [q EXCEPT !.response =
                              [status |-> "ok",
                               summary |-> q.all_sections_html,
                               sections_meta |-> IF q.endpoint = "batch"
                                                 THEN SectionsMeta(q.sections_data)
                                                 ELSE <<>>,
                               total_sections |-> Len(q.sections_data)],
                            !.pc = "done"]]
  /\ UNCHANGED transcript_cache
  /\ PipeFrame

\* lines 1219-1231
StreamComplete(r) ==
  /\ req[r].endpoint = "stream"
  /\ req[r].pc = "finish"
  /\ req' = [req EXCEPT ![r] =
               [@ EXCEPT !.events = Append(@, Event("progress", "complete", 100, 0)),
                         !.pc = "result"]]
  /\ UNCHANGED transcript_cache
  /\ PipeFrame

\* lines 1234-1242
StreamResult(r) ==
  /\ req[r].pc = "result"
  /\ LET q == req[r]
     IN req' = [req EXCEPT ![r] =
                  [q EXCEPT !.events = Append(@, Event("result", "none", 0,
                                                       Len(q.sections_data))),
                            !.response =
                              [status |-> "ok",
                               summary |-> q.all_sections_html,
                               sections_meta |-> SectionsMeta(q.sections_data),
                               total_sections |-> Len(q.sections_data)],
                            !.pc = "done"]]
  /\ UNCHANGED transcript_cache
  /\ PipeFrame

NextPipe ==
  \E r \in ReqIds :
    \/ Receive(r)
    \/ StreamInit(r)
    \/ ExtractVideoId(r)
    \/ LookupCache(r)
    \/ FetchTranscript(r)
    \/ PlanSections(r)
    \/ WriteCache(r)
    \/ LoadingMessages(r)
    \/ AnnounceSection(r)
    \/ EnrichSection(r)
    \/ Respond(r)
    \/ StreamComplete(r)
    \/ StreamResult(r)

SpecPipe == InitPipe /\ [][NextPipe]_vars

\* ------------------------------------------------------------- one progressive run
\* a request for a longer video, or for a url without a video id, has reached
\* the progressive endpoint (line 1168)
InitStream ==
  /\ PlannerIdle
  /\ pc = "idle"
  /\ EnrichIdle
  /\ transcript_cache = <<>>
  /\ \E u \in LongVideos \cup {"bad"} :
       req = [r \in ReqIds |->
                IF r = "r1"
                THEN [IdleRequest EXCEPT !.endpoint = "stream", !.url = u, !.pc = "init"]
                ELSE IdleRequest]

NextStream ==
  \E r \in ReqIds :
    \/ StreamInit(r)
    \/ ExtractVideoId(r)
    \/ FetchTranscript(r)
    \/ PlanSections(r)
    \/ LoadingMessages(r)
    \/ AnnounceSection(r)
    \/ EnrichSection(r)
    \/ StreamComplete(r)
    \/ StreamResult(r)

SpecStream == InitStream /\ [][NextStream]_vars

\* ------------------------------------------------------------- properties of the endpoints
Terminal(e) == e.type \in {"result", "error"}

\* the progress markers and the terminal event of a stream, in order
MarkersOf(events) == SelectSeq(events, LAMBDA e : e.type \in {"progress", "result", "error"})

Succeeded(q) == q.pc = "done" /\ q.failed_at = "none"

\* C13: a successful progressive run over N sections emits its markers in the order
\* init, transcript (twice), planning, section count, one generating marker per section
\* with currentSection 1, 2, .., N, completion, result; the result lists the sections
\* in index order 0 .. N-1
C13_StreamOrder ==
  \A r \in ReqIds :
    LET q == req[r]
        N == Len(q.sections_data)
        m == MarkersOf(q.events)
    IN q.endpoint = "stream" /\ Succeeded(q) =>
         /\ Len(m) = N + 7
         /\ <<m[1].stage, m[2].stage, m[3].stage, m[4].stage, m[5].stage>>
              = <<"init", "transcript", "transcript", "sections", "sections">>
         /\ \A k \in 1..5 : m[k].type = "progress"
         /\ m[5].n = N
         /\ \A k \in 1..N : /\ m[5 + k].type = "progress"
                            /\ m[5 + k].stage = "generating"
                            /\ m[5 + k].n = k
         /\ m[N + 6].type = "progress" /\ m[N + 6].stage = "complete"
         /\ m[N + 7].type = "result"
         /\ Len(q.response.sections_meta) = N
         /\ Len(q.response.summary) = N
         /\ \A k \in 1..N : /\ q.response.sections_meta[k].index = k - 1
                            /\ q.response.summary[k].index = k - 1

\* a progressive run over 3 sections has delivered its result
C13_Witness ==
  \E r \in ReqIds :
    /\ req[r].endpoint = "stream"
    /\ Succeeded(req[r])
    /\ Len(req[r].sections_data) = 3
    /\ req[r].events[Len(req[r].events)].type = "result"
    /\ req[r].events[Len(req[r].events) - 2].n = 3

\* C14: a progressive run emits exactly one terminal event, a result or an error,
\* and it is the last event of the stream
C14_OneTerminalEvent ==
  \A r \in ReqIds :
    LET q == req[r]
    IN q.endpoint = "stream" =>
         /\ \A k \in 1..(Len(q.events) - 1) : ~Terminal(q.events[k])
         /\ q.pc = "done" => /\ q.events # <<>>
                             /\ Terminal(q.events[Len(q.events)])
                             /\ (q.events[Len(q.events)].type = "error")
                                  <=> (q.failed_at # "none")

\* a progressive run over an invalid url has ended with the error event
C14_Witness ==
  \E r \in ReqIds :
    /\ req[r].endpoint = "stream"
    /\ req[r].pc = "done"
    /\ req[r].failed_at = "url"
    /\ req[r].events = <<Event("progress", "init", 0, 0), Event("error", "none", 0, 0)>>

\* C15: a failed transcript fetch aborts the run in every mode: one fetch call, no
\* planning call, no enrichment call, no cache write, and the failure reaches the
\* caller (an HTTP error; in a stream one error event and no section-count,
\* generating, completion or result event)
C15_FetchFailureAborts ==
  \A r \in ReqIds :
    LET q == req[r]
    IN /\ q.fetch_calls <= 1
       /\ (q.fetch_calls = 1 /\ q.fetch_id = "none" /\ q.pc # "fetch") =>
            /\ q.pc = "done"
            /\ q.failed_at = "fetch"
            /\ q.plan_calls = 0
            /\ q.enrich_calls = 0
            /\ q.cache_writes = 0
            /\ q.endpoint # "stream" => q.response.status = "error"
            /\ q.endpoint = "stream" =>
                 q.events = <<Event("progress", "init", 0, 0),
                              Event("progress", "transcript", 5, 0),
                              Event("error", "none", 0, 0)>>

\* the fetch has failed for a batch request and for a progressive request
C15_Witness ==
  \E r1, r2 \in ReqIds :
    /\ req[r1].endpoint = "batch" /\ req[r1].failed_at = "fetch"
    /\ req[r1].response.status = "error"
    /\ req[r2].endpoint = "stream" /\ req[r2].failed_at = "fetch"
    /\ Len(req[r2].events) = 3
    /\ transcript_cache = <<>>

\* C16: enrichment failures never abort a run: a batch or progressive run that has
\* planned N sections completes with exactly one entry per section, in index order,
\* the entry of a section whose summary call failed being the error placeholder
C16_EnrichmentNeverAborts ==
  \A r \in ReqIds :
    LET q == req[r]
        N == Len(q.sections_data)
    IN q.endpoint \in {"batch", "stream"} =>
         /\ q.enrich_calls > 0 => q.failed_at = "none"
         /\ (q.pc = "done" /\ q.failed_at = "none") =>
              /\ q.response.status = "ok"
              /\ q.enrich_calls = N
              /\ Len(q.response.summary) = N
              /\ Len(q.response.sections_meta) = N
              /\ \A k \in 1..N :
                   /\ q.response.summary[k].index = k - 1
                   /\ q.response.summary[k].timestamp = q.sections_data[k].timestamp
                   /\ q.response.sections_meta[k].index = k - 1
                   /\ (q.response.summary[k].kind = "error")
                        <=> (q.outcomes[k] = "summary_fails")
                   /\ (q.response.summary[k].kind = "loaded")
                        <=> (q.outcomes[k] # "summary_fails")

\* a batch run over 3 sections completed although the first and the last summary
\* call failed
C16_Witness ==
  \E r \in ReqIds :
    /\ req[r].endpoint = "batch"
    /\ Succeeded(req[r])
    /\ req[r].outcomes = <<"summary_fails", "ok", "summary_fails">>
    /\ req[r].response.summary[1].kind = "error"
    /\ req[r].response.summary[2].kind = "loaded"
    /\ req[r].response.summary[3].kind = "error"

\* the successful requests for the video of q that had completed when q arrived
EarlierSameVideo(q) == {x \in q.preceded_by : req[x].video_id = q.url}

\* C18 as stated: of two requests for one video, on any endpoints, only the first runs
\* the transcript fetch and the planning step
C18_ReuseOnAnyEndpoint ==
  \A r \in ReqIds :
    EarlierSameVideo(req[r]) # {} => req[r].fetch_calls = 0 /\ req[r].plan_calls = 0

\* C18: a batch request that arrives after a successful metadata or batch request for
\* the same video runs neither the fetch nor the planning step and reuses the cached
\* sections and transcript text; a metadata or progressive request fetches and plans
\* on every successful run
C18_BatchReusesCache ==
  \A r \in ReqIds :
    LET q == req[r]
    IN /\ (/\ q.endpoint = "batch"
           /\ \E x \in EarlierSameVideo(q) : req[x].endpoint \in {"metadata", "batch"}) =>
            /\ q.fetch_calls = 0
            /\ q.plan_calls = 0
            /\ q.pc \notin {"extract", "lookup"} =>
                 /\ q.plan_id \in ReqIds \ {r}
                 /\ q.sections_data = req[q.plan_id].sections_data
                 /\ q.transcript_text = req[q.fetch_id].transcript_text
       /\ (q.endpoint \in {"metadata", "stream"} /\ Succeeded(q)) =>
            q.fetch_calls = 1 /\ q.plan_calls = 1

\* a batch request served from the entry that an earlier metadata request wrote
C18_Witness ==
  \E r1, r2 \in ReqIds :
    /\ req[r1].endpoint = "metadata"
    /\ req[r2].endpoint = "batch"
    /\ r1 \in EarlierSameVideo(req[r2])
    /\ Succeeded(req[r2])
    /\ req[r2].fetch_calls = 0
    /\ req[r2].plan_id = r1
    /\ req[r2].response.total_sections = Len(req[r1].sections_data)

\* C19: a cache entry changes only in the write step of a request that has fetched the
\* transcript and finished planning, and becomes the complete pair of that request;
\* no other step (a failing one, an enrichment one) changes the cache
C19_CacheWrittenAfterPlanning ==
  [][/\ DOMAIN transcript_cache \subseteq DOMAIN transcript_cache'
     /\ \A v \in DOMAIN transcript_cache' :
          (v \notin DOMAIN transcript_cache \/ transcript_cache'[v] # transcript_cache[v]) =>
            \E r \in ReqIds :
              /\ req[r].pc = "cache"
              /\ req[r].video_id = v
              /\ req[r].fetch_calls = 1
              /\ req[r].plan_calls = 1
              /\ req[r].enrich_calls = 0
              /\ req[r].failed_at = "none"
              /\ req[r].sections_data # <<>>
              /\ req[r].transcript_text # <<>>
              /\ transcript_cache'[v].sections = req[r].sections_data
              /\ transcript_cache'[v].transcript_text = req[r].transcript_text]_vars

\* a batch request wrote the entry and completed with a failed section, and a request
\* whose fetch failed wrote nothing
C19_Witness ==
  \E r1, r2 \in ReqIds :
    /\ req[r1].endpoint = "batch"
    /\ Succeeded(req[r1])
    /\ req[r1].cache_writes = 1
    /\ req[r1].outcomes[1] = "summary_fails"
    /\ req[r2].failed_at = "fetch"
    /\ req[r2].cache_writes = 0
    /\ DOMAIN transcript_cache = {req[r1].video_id}
    /\ transcript_cache[req[r1].video_id].sections = req[r1].sections_data
    /\ transcript_cache[req[r1].video_id].transcript_text = req[r1].transcript_text

\* C20: under every interleaving the entry of a video is the complete pair computed by
\* one request, the one that wrote last, never the sections of one request with the
\* transcript of another; each response is built from the pair of one request
C20_LastWriterConsistentPair ==
  /\ \A v \in DOMAIN transcript_cache :
       LET e == transcript_cache[v]
           w == e.plan_id
       IN /\ w \in ReqIds
          /\ e.fetch_id = w
          /\ req[w].video_id = v
          /\ req[w].cache_writes = 1
          /\ e.sections = req[w].sections_data
          /\ e.transcript_text = req[w].transcript_text
          /\ \A r \in ReqIds :
               (req[r].video_id = v /\ req[r].cache_writes = 1) =>
                 req[r].write_order <= req[w].write_order
  /\ \A r \in ReqIds :
       Succeeded(req[r]) =>
         /\ req[r].plan_id = req[r].fetch_id
         /\ req[r].sections_data = req[req[r].plan_id].sections_data
         /\ req[r].transcript_text = req[req[r].fetch_id].transcript_text
         /\ req[r].response.total_sections = Len(req[r].sections_data)

\* two overlapping requests for one video planned differently and both wrote the entry:
\* it holds the pair of the second writer
C20_Witness ==
  \E r1, r2 \in ReqIds :
    /\ r1 # r2
    /\ req[r1].video_id = req[r2].video_id
    /\ req[r1].preceded_by = {} /\ req[r2].preceded_by = {}
    /\ Succeeded(req[r1]) /\ Succeeded(req[r2])
    /\ req[r1].write_order = 1 /\ req[r2].write_order = 2
    /\ Len(req[r1].sections_data) # Len(req[r2].sections_data)
    /\ transcript_cache[req[r1].video_id] = CacheEntry(req[r2])

\* ------------------------------------------------------------- the planner's failure paths
\* the collaborator's answer gave no usable array: the call raised, the answer holds no
\* JSON array or an invalid one, the array is empty, or an element is not an object
Degraded ==
  \/ llm_outcome \in {"raise", "nojson", "badjson"}
  \/ /\ llm_outcome = "array"
     /\ \/ llm_sections = <<>>
        \/ \E k \in 1..Len(llm_sections) : ~llm_sections[k].is_object

\* C17: whatever the boundary-proposal call does (raises, answers without a JSON array,
\* with an invalid array, an empty array, or elements that are not objects), the planner
\* does not raise and returns the even split of the segments into target_count sections
C17_DegradedCallGivesEvenSplit ==
  (pc = "done" /\ Degraded) =>
    /\ via = "fallback"
    /\ Len(result) = TargetSections(video_duration)
    /\ result = [i \in 1..TargetSections(video_duration) |->
                   EvenSection(transcript_data, i - 1, TargetSections(video_duration))]

\* the second element of the array is not an object: the first was matched, then the
\* even split was returned
C17_Witness ==
  /\ pc = "done"
  /\ llm_outcome = "array"
  /\ Len(llm_sections) = 2
  /\ ~llm_sections[2].is_object
  /\ Len(sections) = 1
  /\ via = "fallback"
  /\ Len(result) = 3

\* the step machine of the planner and the planner as one call agree
PlannerAsOneCall ==
  pc = "done" =>
    result = create_sections_with_llm(transcript_data, video_duration,
                                      [outcome |-> llm_outcome, items |-> llm_sections])

\* ------------------------------------------------------------- section titles
\* a result lists a section without a title
UntitledInResult(q) ==
  \E k \in 1..Len(q.response.sections_meta) : q.response.sections_meta[k].title = None

\* C21: every section listed by a successful batch or progressive result carries a
\* non-null title, the sections of the even split (title None) included
C21_EveryResultSectionHasTitle ==
  \A r \in ReqIds :
    (req[r].endpoint \in {"batch", "stream"} /\ Succeeded(req[r]))
      => ~UntitledInResult(req[r])

\* ------------------------------------------------------------- the quality gate
\* every proposal of the array was resolved and the list went through lines 304-333
AllResolved ==
  /\ llm_outcome = "array"
  /\ idx = Len(llm_sections)
  /\ Len(resolved) = Len(llm_sections)

\* the distinct boundaries that remain after lines 304-318
Remaining == {sections[k].timestamp : k \in 1..Len(sections)}

PhraseOf(i) == FirstSentence(llm_sections[i])
TokensOf(i) == SearchWords(PhraseOf(i))

\* tokens remain and some window scores at least the threshold
Locatable(i) ==
  LET phrase == PhraseOf(i)
      tokens == TokensOf(i)
  IN /\ tokens # <<>>
     /\ \E k \in 1..Len(transcript_data) :
          FracGeq(WindowScore(phrase, tokens, transcript_data, k),
                  Frac(ThresholdNum, ThresholdDen))

\* idx * video_duration / number_of_proposals in whole seconds, idx = i - 1
ProportionalPosition(i) ==
  ((i - 1) * video_duration) \div (Len(llm_sections) * TicksPerSec)

AllObjects == \A k \in 1..Len(llm_sections) : llm_sections[k].is_object

\* C23: a proposal whose phrase cannot be located still contributes a boundary, at
\* idx * video_duration / number_of_proposals; the proposals after it are resolved
\* too, no error is raised, and the returned list is boundary-derived, that boundary
\* included, unless fewer than 2 boundaries remain
C23_UnlocatedProposalKeepsPlanning ==
  /\ \A i \in 1..Len(resolved) :
       ~Locatable(i) => /\ resolved[i].source = "FALLBACK"
                        /\ resolved[i].timestamp = ProportionalPosition(i)
  /\ (pc = "done" /\ llm_outcome = "array" /\ AllObjects) =>
       /\ Len(resolved) = Len(llm_sections)
       /\ via \in {"llm", "fallback"}
       /\ via = "llm" <=> Cardinality(Remaining) >= 2
       /\ via = "llm" =>
            \A i \in 1..Len(resolved) :
              ~Locatable(i) =>
                \E k \in 1..Len(result) : result[k].timestamp = ProportionalPosition(i)

\* the first proposal has no token left, the second one has tokens but scores below the
\* threshold everywhere and is placed at its proportional position, past 0
C23_Witness ==
  /\ pc = "done"
  /\ via = "llm"
  /\ Len(resolved) = 2
  /\ TokensOf(1) = <<>>
  /\ TokensOf(2) # <<>>
  /\ ~Locatable(2)
  /\ resolved[2].timestamp = ProportionalPosition(2)
  /\ resolved[2].timestamp > 0
  /\ Timestamps(result) = <<0, resolved[2].timestamp>>

\* the window of segment k (1-based): segments k .. k + 3, or to the last one
WindowSegs(k) ==
  SubSeq(transcript_data, k,
         IF k + WindowSize - 1 < Len(transcript_data)
         THEN k + WindowSize - 1 ELSE Len(transcript_data))

\* the lower-cased texts of the window, joined by " "
WindowText(k) ==
  Join([j \in 1..Len(WindowSegs(k)) |-> Lower(WindowSegs(k)[j].text)])

\* the tokens that occur in the window text
TokenHits(tokens, text) == {j \in 1..Len(tokens) : Contains(text, tokens[j])}

\* (number of tokens occurring in the window text) / (number of tokens)
StatedScore(tokens, text) == Frac(Cardinality(TokenHits(tokens, text)), Len(tokens))

\* the stated score of every window for proposal i
StatedScores(i) ==
  LET tokens == TokensOf(i)
  IN [k \in 1..Len(transcript_data) |-> StatedScore(tokens, WindowText(k))]

FracEq(a, b) == a.num * b.den = b.num * a.den

\* lines 298-302 have just appended the section of proposal Len(resolved)
JustResolved == pc \in {"match", "sanitize"} /\ resolved # <<>>

\* C24: a proposal is MATCHED exactly when a token remains after dropping the words of
\* length <= 2 and the maximum window score is at least 0.5, and FALLBACK otherwise;
\* the score of a window of min(4, remaining) segments is (tokens occurring in the
\* window text) / (tokens), it is in [0, 1], and the confidence is the maximum score
\* (stated of each proposal as it is resolved)
C24_MatchedIffScoreReachesThreshold ==
  JustResolved =>
    LET i == Len(resolved)
        tokens == TokensOf(i)
        phrase == PhraseOf(i)
        scores == StatedScores(i)
        located == /\ tokens # <<>>
                   /\ \E k \in DOMAIN scores :
                        FracGeq(scores[k], Frac(ThresholdNum, ThresholdDen))
    IN /\ resolved[i].source = "MATCHED" <=> located
       /\ resolved[i].source = "FALLBACK" <=> ~located
       /\ tokens = <<>> => resolved[i].confidence = Frac(0, 1)
       /\ tokens # <<>> =>
            /\ \A k \in DOMAIN scores :
                 /\ Len(WindowSegs(k)) \in 1..WindowSize
                 /\ FracEq(WindowScore(phrase, tokens, transcript_data, k), scores[k])
                 /\ 0 <= scores[k].num
                 /\ scores[k].num <= scores[k].den
                 /\ FracGeq(resolved[i].confidence, scores[k])
            /\ \E k \in DOMAIN scores : FracEq(resolved[i].confidence, scores[k])

\* one of the two tokens of a phrase occurs: the score is exactly 1/2 and the proposal
\* is MATCHED; the last windows of the transcript hold fewer than 4 segments
C24_Witness ==
  /\ Len(transcript_data) > WindowSize
  /\ JustResolved
  /\ Len(TokensOf(Len(resolved))) = 2
  /\ resolved[Len(resolved)].confidence = Frac(1, 2)
  /\ resolved[Len(resolved)].source = "MATCHED"
  /\ \E k \in 1..Len(transcript_data) : StatedScores(Len(resolved))[k] = Frac(0, 2)

\* the windows whose stated score is the maximum over all windows
MaxWindows(i) ==
  LET scores == StatedScores(i)
  IN {k \in DOMAIN scores : \A j \in DOMAIN scores : FracGeq(scores[k], scores[j])}

\* the smallest element of a non-empty set of indices
Earliest(K) == CHOOSE k \in K : \A j \in K : k <= j

\* C25: when several starting segment indices attain the maximum score the smallest
\* one is kept: a MATCHED boundary is the start, in whole seconds, of the earliest
\* segment whose window attains the maximum
C25_EarliestMaximumWins ==
  \A i \in 1..Len(resolved) :
    resolved[i].source = "MATCHED" =>
      LET k == Earliest(MaxWindows(i))
      IN /\ resolved[i].best_match_idx = k - 1
         /\ resolved[i].timestamp = transcript_data[k].start \div TicksPerSec

\* the maximum is first attained by the window of the second segment and again by
\* later windows, which start at a later second
C25_Witness ==
  \E i \in 1..Len(resolved) :
    /\ resolved[i].source = "MATCHED"
    /\ Cardinality(MaxWindows(i)) >= 3
    /\ Earliest(MaxWindows(i)) = 2
    /\ resolved[i].timestamp = transcript_data[2].start \div TicksPerSec
    /\ \A k \in MaxWindows(i) \ {2} :
         transcript_data[k].start \div TicksPerSec > resolved[i].timestamp

\* ------------------------------------------------------------- de-duplication
\* the proposals (1-based) that resolved to timestamp t
ResolvedTo(t) == {i \in 1..Len(resolved) : resolved[i].timestamp = t}

\* the surviving sections that carry the title of proposal i
SurvivorsOf(i) == {k \in 1..Len(sections) : sections[k].title = <<"T", i>>}

\* C26: of the proposals that resolve to one timestamp exactly the first in proposal
\* order survives, with its title, at that timestamp (or at 0 when it is the section
\* forced to the start); the later ones are dropped, and as many sections survive as
\* there are distinct timestamps
C26_StableDedupe ==
  pc = "extract" =>
    /\ Len(sections) = Cardinality({resolved[i].timestamp : i \in 1..Len(resolved)})
    /\ \A i \in 1..Len(resolved) :
         LET t == resolved[i].timestamp
         IN IF i = Earliest(ResolvedTo(t))
            THEN /\ Cardinality(SurvivorsOf(i)) = 1
                 /\ \A k \in SurvivorsOf(i) : sections[k].timestamp \in {t, 0}
            ELSE SurvivorsOf(i) = {}

\* ------------------------------------------------------------- the quiz prefix
\* the sections of a run for which quiz generation was performed
QuizzedSections(q) ==
  {k \in 1..Len(q.all_sections_html) : q.all_sections_html[k].quiz # "none"}

Min(a, b) == IF a < b THEN a ELSE b

EvenWindow(i) ==
  {k \in 1..Len(transcript_data) :
     /\ result[i].timestamp * TicksPerSec <= transcript_data[k].start
     /\ i < Len(result) =>
          transcript_data[k].start < result[i + 1].timestamp * TicksPerSec}

\* the texts of the segments of K in transcript order, each followed by " "
RECURSIVE TextsOf(_, _)
TextsOf(K, from) ==
  IF from > Len(transcript_data) THEN <<>>
  ELSE (IF from \in K THEN transcript_data[from].text \o <<" ">> ELSE <<>>)
       \o TextsOf(K, from + 1)

\* C28: the content of every section the even split returns is the concatenation of
\* the texts of exactly the segments whose start lies in [timestamp_i, timestamp_(i+1)),
\* and every segment's text is in exactly one section's content
C28_EvenSplitContentIsWindowText ==
  EvenSplitDone =>
    /\ \A i \in 1..Len(result) : result[i].content = TextsOf(EvenWindow(i), 1)
    /\ \A k \in 1..Len(transcript_data) :
         Cardinality({i \in 1..Len(result) :
                        Contains(result[i].content, transcript_data[k].text)}) = 1

\* ------------------------------------------------------------- progress values
\* the progress events of a stream, in order
ProgressOf(events) == SelectSeq(events, LAMBDA e : e.type = "progress")

\* 30 + floor(65 * i / N)
StatedProgress(i, N) == 30 + ((65 * i) \div N)

\* C29: every progress event of a progressive run carries an integer in 0..100 and the
\* values never decrease along the stream; the value of section i of N is
\* 30 + floor(65 * i / N), within 30..95 and non-decreasing in i for every N >= 1,
\* after the planning value 25 and before the completion value 100
C29_ProgressBoundedAndMonotone ==
  /\ \A r \in ReqIds :
       LET p == ProgressOf(req[r].events)
           N == Len(req[r].sections_data)
       IN /\ \A k \in 1..Len(p) :
               /\ p[k].progress \in 0..100
               /\ k < Len(p) => p[k].progress <= p[k + 1].progress
               /\ p[k].stage = "generating" =>
                    /\ p[k].progress = StatedProgress(p[k].n - 1, N)
                    /\ p[k].progress \in 30..95
                    /\ p[k - 1].progress >= 25
               /\ p[k].stage = "complete" => p[k].progress = 100 /\ k = Len(p)
  /\ \A N \in 1..MaxSections :
       \A i \in 0..(N - 1) :
         /\ SectionProgress(i, N) = StatedProgress(i, N)
         /\ SectionProgress(i, N) \in 30..95
         /\ i > 0 => SectionProgress(i - 1, N) <= SectionProgress(i, N)

\* a run over 8 sections ended with these progress values
C29_Witness ==
  \E r \in ReqIds :
    /\ Succeeded(req[r])
    /\ Len(req[r].sections_data) = 8
    /\ [k \in 1..Len(ProgressOf(req[r].events)) |-> ProgressOf(req[r].events)[k].progress]
         = <<0, 5, 15, 20, 25, 30, 38, 46, 54, 62, 70, 78, 86, 100>>

\* ------------------------------------------------------------- the progressive run and the cache
\* the step is one of a progressive run (its arrival included)
StreamStep == \E r \in ReqIds : req'[r].endpoint = "stream" /\ req'[r] # req[r]

\* a progressive run that has ended wrote nothing, and one that ended in a result
\* fetched the transcript and planned once, itself
FreshRun(q, r) ==
  (q.endpoint = "stream" /\ q.pc = "done") =>
    /\ q.cache_writes = 0
    /\ q.fetch_calls <= 1
    /\ q.plan_calls <= 1
    /\ Succeeded(q) => /\ q.fetch_calls = 1
                       /\ q.plan_calls = 1
                       /\ q.fetch_id = r
                       /\ q.plan_id = r

\* C30: no step of a progressive run changes the cache, whether the run ends in a
\* result or in an error, and the sections of a run that ends in a result come from
\* its own planning call, even when the cache holds an entry for the video
C30_StreamLeavesCacheAlone ==
  [][/\ StreamStep => transcript_cache' = transcript_cache
     /\ \A r \in ReqIds : FreshRun(req'[r], r)]_vars

\* a progressive run for a video whose entry a completed batch request had written
\* planned anew, got other sections than the cached ones, and left the entry as it was
C30_Witness ==
  \E r1, r2 \in ReqIds :
    /\ req[r1].endpoint = "batch"
    /\ req[r2].endpoint = "stream"
    /\ r1 \in EarlierSameVideo(req[r2])
    /\ Succeeded(req[r2])
    /\ req[r2].plan_id = r2
    /\ req[r2].fetch_calls = 1
    /\ req[r2].sections_data # req[r1].sections_data
    /\ transcript_cache[req[r2].video_id] = CacheEntry(req[r1])

====
